---- MODULE Spec2Model ----
(***************************************************************************)
(* A state-machine model of the marketplace simulation: the bulletin board *)
(* of core/market.py (MarketWorld) and the agent turn of agents/agent.py   *)
(* (TradingAgent.step), driven by the tick loop of simulation.py.          *)
(*                                                                         *)
(* Numbers.  A Python float (a quantity handed to post_offer, a price, a   *)
(* budget, a number of the decision text) is written in tenths: 107 is     *)
(* 10.7, 5 is 0.5, -20 is -2.0.  A Python int (an offer id, a stored       *)
(* quantity, an inventory count) is written as it is.  Timestamps are left *)
(* out: no decision of the code reads them.                                *)
(*                                                                         *)
(* Files.  _save_offers and ledger.to_csv write under logs/.  The model    *)
(* keeps no file contents; a write either succeeds or raises OSError, and  *)
(* the exception leaves the call at the line of the write.                 *)
(***************************************************************************)
EXTENDS Integers, Sequences, FiniteSets, TLC

\* ------------------------------------------------------------------ bounds

\* post_offer is called at most this many times in a run of Spec.
MaxCounter == 3

\* At most this many file writes fail in a run.
MaxFaults == 1

\* run(total_ticks): the number of ticks of a run of SimSpec.
TotalTicks == 2

\* A caller edits the list get_market_state gave it at most this many times
\* in a run of CallerSpec.
MaxEdits == 1
MaxTenths == 57
MaxEntries == 3
MaxHours == 2
MaxTurns == 4

\* ------------------------------------------------------------------ inputs

\* Callers of the market API in tests/test_type_safety.py.
Sellers == {"TestSeller"}
Buyers == {"TestBuyer"}
Items == {"Wood"}
Prices == {50}

\* Quantities handed to post_offer, in tenths: -2, 0, 0.3, 0.5, 2.5, 10.7.
QuantityInputs == {-20, 0, 3, 5, 25, 107}

\* The outcome of a file write.
IOOutcomes == {"ok", "OSError"}

VARIABLES
    offer_counter,   \* MarketWorld.offer_counter
    active_offers,   \* MarketWorld.active_offers: the list of open offers
    ledger,          \* MarketWorld.ledger: the rows of the trade table
    budget,          \* TradingAgent.budget, per agent
    inventory,       \* TradingAgent.inventory, per agent: item -> count
    memory,          \* TradingAgent.memory.entries, per agent
    tick,            \* the tick run() is in (0 before the first)
    pending,         \* the agents that have not yet stepped in this tick
    last,            \* the call or turn of the latest step, with its result
    faults,          \* file writes that have failed so far
    issued,          \* history: the offers post_offer has created, in order
    traded,          \* history: the offer id each ledger row consumed
    edits,           \* history: edits callers made to a list they were given
    hours            \* time.time(), in whole hours since construction

vars == <<offer_counter, active_offers, ledger, budget, inventory, memory,
          tick, pending, last, faults, issued, traded, edits, hours>>

marketVars == <<offer_counter, active_offers, ledger, faults, issued, traded>>
agentVars == <<budget, inventory, memory>>
tickVars == <<tick, pending, edits, hours>>

\* time.time(), in hours.
Now == hours

\* ------------------------------------------------------- pure functions

\* Python 3 round(x) of a float x given in tenths: to the nearest integer,
\* a tie (x.5) to the even neighbour.
PyRound(q10) ==
    LET fl == q10 \div 10
        r == q10 % 10
    IN  IF r < 5 THEN fl
        ELSE IF r > 5 THEN fl + 1
        ELSE IF fl % 2 = 0 THEN fl ELSE fl + 1

\* Rounding to the nearest integer, a tie away from zero.
RoundHalfAway(q10) ==
    IF q10 >= 0 THEN (q10 + 5) \div 10 ELSE -((-q10 + 5) \div 10)

QtyInt_Clamped(quantity) ==
    IF PyRound(quantity) <= 0 THEN 1 ELSE PyRound(quantity)

\* qty_int = int(round(float(quantity)))
QtyInt(quantity) == PyRound(quantity)

NewOfferId_BoardSize == Len(active_offers) + 1

\* The id post_offer gives: the counter after its increment.
NewOfferId == offer_counter + 1

\* The offer dict post_offer builds.
NewOffer(offer_id, seller_name, item, price, qty_int) ==
    [offer_id |-> offer_id, seller |-> seller_name, item |-> item,
     price |-> price, quantity |-> qty_int]

FindOffer_FirstAsDefault(offers, offer_id) ==
    IF \E i \in 1..Len(offers) : offers[i].offer_id = offer_id
    THEN CHOOSE i \in 1..Len(offers) :
            /\ offers[i].offer_id = offer_id
            /\ \A j \in 1..(i - 1) : offers[j].offer_id # offer_id
    ELSE IF Len(offers) > 0 THEN 1 ELSE 0

\* next((o for o in active_offers if o["offer_id"] == offer_id), None):
\* the position of the first open offer with that id, 0 for None.
FindOffer(offers, offer_id) ==
    IF \E i \in 1..Len(offers) : offers[i].offer_id = offer_id
    THEN CHOOSE i \in 1..Len(offers) :
            /\ offers[i].offer_id = offer_id
            /\ \A j \in 1..(i - 1) : offers[j].offer_id # offer_id
    ELSE 0

\* The row execute_trade records for an offer.
NewTrade(offer, buyer_name) ==
    [seller |-> offer.seller, buyer |-> buyer_name, item |-> offer.item,
     price |-> offer.price, quantity |-> offer.quantity]

LedgerAppend_AlwaysAssign(rows, new_trade) == <<new_trade>>

\* The ledger after a trade: the new row alone when the table is empty,
\* else the table with the row concatenated.
LedgerAppend(rows, new_trade) ==
    IF rows = <<>> THEN <<new_trade>> ELSE rows \o <<new_trade>>

\* s without its element at position i.
RemoveAt(s, i) ==
    [j \in 1..(Len(s) - 1) |-> IF j < i THEN s[j] ELSE s[j + 1]]

RemoveOffer_PopFirst(offers, offer) == RemoveAt(offers, 1)

\* list.remove(offer): the list without its first element equal to offer.
RemoveOffer(offers, offer) ==
    RemoveAt(offers, CHOOSE i \in 1..Len(offers) :
                        /\ offers[i] = offer
                        /\ \A j \in 1..(i - 1) : offers[j] # offer)

\* ------------------------------------------------------------- results

None == [kind |-> "None"]
Raised(exc) == [kind |-> "raise", exc |-> exc]
OfferIdResult(n) == [kind |-> "int", value |-> n]
TradeError == [kind |-> "dict", status |-> "error", message |-> "Offer not found"]
TradeSuccess(new_trade) == [kind |-> "dict", status |-> "success", data |-> new_trade]

\* -------------------------------------------------------------- market

post_offer_CountOnAccept(seller_name, item, price, quantity, io) ==
    LET qty_int == QtyInt(quantity)
        offer == NewOffer(NewOfferId, seller_name, item, price, qty_int)
    IN  IF qty_int <= 0
        THEN [offer_counter |-> offer_counter,
              active_offers |-> active_offers,
              issued |-> issued,
              ret |-> None]
        ELSE [offer_counter |-> offer_counter + 1,
              active_offers |-> Append(active_offers, offer),
              issued |-> Append(issued, offer),
              ret |-> IF io = "ok" THEN OfferIdResult(offer.offer_id)
                      ELSE Raised("OSError")]

\* MarketWorld.post_offer, as the market's fields after the call and what
\* the call returns or raises.  io is the outcome of the write _save_offers
\* makes; a rejected post writes nothing.
post_offer(seller_name, item, price, quantity, io) ==
    LET qty_int == QtyInt(quantity)
        offer == NewOffer(NewOfferId, seller_name, item, price, qty_int)
    IN  IF qty_int <= 0
        THEN [offer_counter |-> offer_counter + 1,
              active_offers |-> active_offers,
              issued |-> issued,
              ret |-> None]
        ELSE [offer_counter |-> offer_counter + 1,
              active_offers |-> Append(active_offers, offer),
              issued |-> Append(issued, offer),
              ret |-> IF io = "ok" THEN OfferIdResult(offer.offer_id)
                      ELSE Raised("OSError")]

\* The writes of execute_trade, in the order it makes them.
TradeWrites == {"ok", "to_csv", "_save_offers"}

\* MarketWorld.execute_trade, as the market's fields after the call and what
\* the call returns or raises.  io names the write that fails, if one does:
\* ledger.to_csv comes after the row is added and before the offer is
\* removed, _save_offers after the offer is removed.
execute_trade(buyer_name, offer_id, io) ==
    LET i == FindOffer(active_offers, offer_id)
    IN  IF i = 0
        THEN [ledger |-> ledger, active_offers |-> active_offers,
              traded |-> traded, ret |-> TradeError]
        ELSE LET offer == active_offers[i]
                 new_trade == NewTrade(offer, buyer_name)
                 rows == LedgerAppend(ledger, new_trade)
                 ids == LedgerAppend(traded, offer.offer_id)
             IN  IF io = "to_csv"
                 THEN [ledger |-> rows, active_offers |-> active_offers,
                       traded |-> ids, ret |-> Raised("OSError")]
                 ELSE [ledger |-> rows,
                       active_offers |-> RemoveOffer(active_offers, offer),
                       traded |-> ids,
                       ret |-> IF io = "ok" THEN TradeSuccess(new_trade)
                               ELSE Raised("OSError")]

\* Whether a call that was given the write outcome io may happen now: a
\* failing write is one the call really makes, and the run has faults left.
FaultAllowed(io, ret) ==
    io # "ok" => (faults < MaxFaults /\ ret.kind = "raise")

\* A caller of the market API posts an offer.
PostOfferCall ==
    \E seller_name \in Sellers, item \in Items, price \in Prices,
       quantity \in QuantityInputs, io \in IOOutcomes :
        LET r == post_offer(seller_name, item, price, quantity, io)
        IN  /\ offer_counter < MaxCounter
            /\ FaultAllowed(io, r.ret)
            /\ offer_counter' = r.offer_counter
            /\ active_offers' = r.active_offers
            /\ issued' = r.issued
            /\ faults' = IF io = "ok" THEN faults ELSE faults + 1
            /\ last' = [op |-> "post_offer", quantity |-> quantity, ret |-> r.ret]
            /\ UNCHANGED <<ledger, traded, agentVars, tickVars>>

\* A caller of the market API buys an offer by id.
ExecuteTradeCall ==
    \E buyer_name \in Buyers, offer_id \in 1..(MaxCounter + 1), io \in TradeWrites :
        LET r == execute_trade(buyer_name, offer_id, io)
        IN  /\ FaultAllowed(io, r.ret)
            /\ ledger' = r.ledger
            /\ active_offers' = r.active_offers
            /\ traded' = r.traded
            /\ faults' = IF io = "ok" THEN faults ELSE faults + 1
            /\ last' = [op |-> "execute_trade", buyer |-> buyer_name,
                        offer_id |-> offer_id, ret |-> r.ret]
            /\ UNCHANGED <<offer_counter, issued, agentVars, tickVars>>

\* MarketWorld.get_market_state: what the caller receives.  The method
\* returns self.active_offers, the list object the market itself works on,
\* so the value names that list (ref) and shows its present content.
get_market_state == [ref |-> "active_offers", value |-> active_offers]

\* What a caller may do to a list it holds: list.append of an offer of its own
\* making, list.pop(0), list.clear(), and an assignment to a key of the first
\* element.
ListEdits == {"append", "pop", "clear", "setitem"}

\* The list s after the edit.
EditList(s, edit) ==
    CASE edit = "append" ->
            Append(s, NewOffer(MaxCounter + 1, "TestBuyer", "Wood", 10, 1))
      [] edit = "pop" -> Tail(s)
      [] edit = "clear" -> <<>>
      [] edit = "setitem" -> [s EXCEPT ![1].quantity = 0]

\* A caller of the market API reads the board and edits the list it was
\* given.  An edit of a list object is seen through every name of that
\* object; an edit of a copy is seen by nobody else.
GetMarketStateCall ==
    \E edit \in ListEdits :
        LET market_state == get_market_state
        IN  /\ edits < MaxEdits
            /\ edit \in {"pop", "clear", "setitem"} => market_state.value # <<>>
            /\ active_offers' =
                    IF market_state.ref = "active_offers"
                    THEN EditList(market_state.value, edit)
                    ELSE active_offers
            /\ edits' = edits + 1
            /\ last' = [op |-> "get_market_state", edit |-> edit]
            /\ UNCHANGED <<offer_counter, ledger, faults, issued, traded,
                           agentVars, tick, pending, hours>>

\* ---------------------------------------------------------------- agents

\* agents/roles.py: two of the twenty roles (budgets in tenths).
AGENT_ROLES ==
    <<[name |-> "Panic_Paul", budget |-> 1000,
       inventory |-> [k \in {"Wood"} |-> 10]],
      [name |-> "Poor_Carpenter_Dan", budget |-> 400,
       inventory |-> [k \in {} |-> 0]]>>

Agents == {AGENT_ROLES[i].name : i \in 1..Len(AGENT_ROLES)}

Role(name) == AGENT_ROLES[CHOOSE i \in 1..Len(AGENT_ROLES) : AGENT_ROLES[i].name = name]

\* Values of the decision text after json.loads.
PyNone == [t |-> "None"]
PyStr(s) == [t |-> "str", s |-> s]
PyNum(v10) == [t |-> "num", v |-> v10]
PyNumStr(v10) == [t |-> "numstr", v |-> v10]
PyList == [t |-> "list"]

\* The float inf: JSON 1e999 or Infinity.
PyInf == [t |-> "inf"]

\* The value of a key that the decision object lacks.
PyMissing == [t |-> "missing"]

IsBlank_NoneOnly(value) == value.t = "None"

\* value is None or value == "" or value == "null"
IsBlank(value) ==
    value.t = "None" \/ (value.t = "str" /\ value.s \in {"", "null"})

IsNumeric(value) == value.t \in {"num", "numstr"}

\* type(value).__name__ of a value that float() may be given.
TypeName(value) ==
    CASE value.t \in {"str", "numstr"} -> "str"
      [] value.t = "list" -> "list"
      [] value.t \in {"num", "inf"} -> "float"
      [] OTHER -> "NoneType"

\* The ValueError the helpers raise in place of the ValueError or TypeError
\* of float(): its message names the parameter, the value and its type.
CoercionError(param_name, value) ==
    [kind |-> "raise", exc |-> "ValueError", param_name |-> param_name,
     value |-> value, type |-> TypeName(value)]

\* TradingAgent._safe_float: None, the float, or ValueError.
_safe_float(value, param_name) ==
    IF IsBlank(value) THEN None
    ELSE IF IsNumeric(value) THEN [kind |-> "float", value |-> value.v]
    ELSE IF value.t = "inf" THEN [kind |-> "float", value |-> "inf"]
    ELSE CoercionError(param_name, value)

\* TradingAgent._safe_int: None, int(round(float(value))), or ValueError;
\* round(inf) raises OverflowError, which the helper does not catch.
_safe_int(value, param_name) ==
    IF IsBlank(value) THEN None
    ELSE IF IsNumeric(value) THEN [kind |-> "int", value |-> PyRound(value.v)]
    ELSE IF value.t = "inf" THEN Raised("OverflowError")
    ELSE CoercionError(param_name, value)

\* str.strip() on the strings the decisions use.
Strip(s) ==
    CASE s = " Wood " -> "Wood"
      [] s = "  " -> ""
      [] OTHER -> s

\* str(value) of a value that is no string: a JSON integer, or a list.
PyStrOf(value) ==
    IF value.t = "str" THEN value.s
    ELSE IF value.t = "list" THEN "[]"
    ELSE IF value.t = "inf" THEN "inf"
    ELSE ToString(value.v \div 10)

\* TradingAgent._safe_str: None, or str(value).strip().
_safe_str(value) ==
    IF IsBlank(value) THEN None
    ELSE [kind |-> "str", value |-> Strip(PyStrOf(value))]

\* params.get(key): None for a key the dict lacks.
Get(params, key) == IF key \in DOMAIN params THEN params[key] ELSE PyNone

\* self.inventory.get(item, 0)
InvGet(inv, item) == IF item \in DOMAIN inv THEN inv[item] ELSE 0

\* The dict inv with inv[item] set to count.
InvSet(inv, item, count) ==
    [k \in DOMAIN inv \cup {item} |-> IF k = item THEN count ELSE inv[k]]

\* MemoryEntry: an entry of a memory, its content named by kind.
MemoryEntry(kind, importance, partner) ==
    [content |-> kind, importance |-> importance, partner |-> partner,
     timestamp |-> Now]

RECURSIVE Pow(_, _)
Pow(b, n) == IF n = 0 THEN 1 ELSE b * Pow(b, n - 1)

\* The unit of the scores: scores are held as multiples of 100^-MaxHours,
\* in which decay_factor ** hours_passed is exact for whole hours.
ScoreUnit == Pow(100, MaxHours)

\* final_score of entry at the time now, for partner_name ("" standing for
\* None): recency_score + importance_score + relevance_score.
FinalScore(entry, partner_name, now) ==
    LET hours_passed == now - entry.timestamp
        recency_score ==
            Pow(99, hours_passed) * Pow(100, MaxHours - hours_passed)
        importance_score == (entry.importance * ScoreUnit) \div 10
        relevance_score ==
            IF partner_name # "" /\ entry.partner = partner_name
            THEN ScoreUnit ELSE 0
    IN  recency_score + importance_score + relevance_score

\* list.sort(key=lambda x: x[0], reverse=True) of a list of (score, entry)
\* pairs: descending by score, pairs of equal score in their order in the
\* list.  The pair x goes behind every pair of sorted whose score is not
\* smaller.
InsertByScore_BeforeEqual(sorted, x) ==
    LET k == Cardinality({i \in 1..Len(sorted) : sorted[i][1] > x[1]})
    IN  SubSeq(sorted, 1, k) \o <<x>> \o SubSeq(sorted, k + 1, Len(sorted))

InsertByScore(sorted, x) ==
    LET k == Cardinality({i \in 1..Len(sorted) : sorted[i][1] >= x[1]})
    IN  SubSeq(sorted, 1, k) \o <<x>> \o SubSeq(sorted, k + 1, Len(sorted))

RECURSIVE SortByScore(_)
SortByScore(scored_memories) ==
    IF scored_memories = <<>> THEN <<>>
    ELSE InsertByScore(
            SortByScore(SubSeq(scored_memories, 1, Len(scored_memories) - 1)),
            scored_memories[Len(scored_memories)])

\* scored_memories[:limit] for limit >= 0.
Slice(s, limit) == SubSeq(s, 1, IF limit < Len(s) THEN limit ELSE Len(s))

\* MemoryStream.retrieve_relevant_memories of the stream entries: the
\* contents of the limit entries of the highest score.
retrieve_relevant_memories(entries, partner_name, limit) ==
    LET scored_memories ==
            [i \in 1..Len(entries) |->
                <<FinalScore(entries[i], partner_name, Now), entries[i]>>]
        top == Slice(SortByScore(scored_memories), limit)
    IN  [i \in 1..Len(top) |-> top[i][2].content]

\* What a turn of agent has changed when it has changed nothing: the
\* market's fields and every agent's own, as they are.
Untouched(agent) ==
    [offer_counter |-> offer_counter, active_offers |-> active_offers,
     issued |-> issued, ledger |-> ledger, traded |-> traded,
     budget |-> budget, inventory |-> inventory,
     memory |-> memory, raised |-> FALSE, outcome |-> "none",
     handler |-> "none", error |-> None]

\* self.memory.add_memory(...) of agent: the agents' memories after it.
add_memory(agent, entry) ==
    [memory EXCEPT ![agent] = Append(memory[agent], entry)]

_handle_buy_success_PaysSeller(agent, m, data) ==
    [m EXCEPT
        !.budget = [b \in DOMAIN budget |->
                        budget[b]
                        - (IF b = agent THEN data.price * data.quantity ELSE 0)
                        + (IF b = data.seller THEN data.price * data.quantity
                           ELSE 0)],
        !.inventory = [inventory EXCEPT ![agent] =
                        InvSet(inventory[agent], data.item,
                               InvGet(inventory[agent], data.item)
                                    + data.quantity)],
        !.memory = add_memory(agent, MemoryEntry("Bought", 7, data.seller)),
        !.outcome = "buy: success"]

_handle_buy_success_TakesGoods(agent, m, data) ==
    [m EXCEPT
        !.budget = [budget EXCEPT ![agent] =
                        budget[agent] - data.price * data.quantity],
        !.inventory = [inventory EXCEPT ![agent] =
                        InvSet(inventory[agent], data.item,
                               InvGet(inventory[agent], data.item)
                                    - data.quantity)],
        !.memory = add_memory(agent, MemoryEntry("Bought", 7, data.seller)),
        !.outcome = "buy: success"]

ConversionRaised_AllCaught(agent, outcome, e) ==
    [Untouched(agent) EXCEPT !.outcome = outcome, !.error = e]

\* The try block of the conversions in a handler, e being the first
\* exception raised: `except ValueError` reports it and returns; any other
\* exception leaves the handler.
ConversionRaised(agent, outcome, e) ==
    IF e.exc = "ValueError"
    THEN [Untouched(agent) EXCEPT !.outcome = outcome, !.error = e]
    ELSE [Untouched(agent) EXCEPT !.raised = TRUE, !.outcome = e.exc,
            !.error = e]

\* _handle_buy after a trade that succeeded: m is the state execute_trade
\* left, data the trade record.
_handle_buy_success(agent, m, data) ==
    LET item == data.item
        price == data.price
        qty == data.quantity
        total_cost == price * qty
    IN  [m EXCEPT
            !.budget = [budget EXCEPT ![agent] = budget[agent] - total_cost],
            !.inventory = [inventory EXCEPT ![agent] =
                            InvSet(inventory[agent], item,
                                   InvGet(inventory[agent], item) + qty)],
            !.memory = add_memory(agent, MemoryEntry("Bought", 7, data.seller)),
            !.outcome = "buy: success"]

_handle_buy_failure_Silent(agent, m) ==
    [m EXCEPT !.outcome = "buy: failed"]

\* _handle_buy after a trade that failed.
_handle_buy_failure(agent, m) ==
    [m EXCEPT
        !.memory = add_memory(agent, MemoryEntry("Attempted to buy", 4, "")),
        !.outcome = "buy: failed"]

_handle_buy_PartialFill(agent, params, io) ==
    LET offer_id == _safe_int(Get(params, "offer_id"), "offer_id")
        quantity == _safe_int(Get(params, "quantity"), "quantity")
    IN  IF offer_id.kind = "raise" \/ quantity.kind = "raise"
        THEN ConversionRaised(agent, "buy: type conversion error",
                IF offer_id.kind = "raise" THEN offer_id ELSE quantity)
        ELSE IF offer_id = None
        THEN [Untouched(agent) EXCEPT !.outcome = "buy: no offer_id"]
        ELSE
        LET r == execute_trade(agent, offer_id.value, io)
            m == [Untouched(agent) EXCEPT !.ledger = r.ledger,
                    !.active_offers = r.active_offers, !.traded = r.traded]
        IN  IF r.ret.kind = "raise"
            THEN [m EXCEPT !.raised = TRUE, !.outcome = "OSError"]
            ELSE IF r.ret.status = "success"
            THEN _handle_buy_success(agent, m,
                    IF quantity = None \/ quantity.value >= r.ret.data.quantity
                    THEN r.ret.data
                    ELSE [r.ret.data EXCEPT !.quantity = quantity.value])
            ELSE _handle_buy_failure(agent, m)

\* TradingAgent._handle_buy.  io names the write of execute_trade that fails,
\* if one does; the OSError is raised past the handler.
_handle_buy(agent, params, io) ==
    LET offer_id == _safe_int(Get(params, "offer_id"), "offer_id")
        quantity == _safe_int(Get(params, "quantity"), "quantity")
    IN  IF offer_id.kind = "raise" \/ quantity.kind = "raise"
        THEN ConversionRaised(agent, "buy: type conversion error",
                IF offer_id.kind = "raise" THEN offer_id ELSE quantity)
        ELSE IF offer_id = None
        THEN [Untouched(agent) EXCEPT !.outcome = "buy: no offer_id"]
        ELSE
        LET r == execute_trade(agent, offer_id.value, io)
            m == [Untouched(agent) EXCEPT !.ledger = r.ledger,
                    !.active_offers = r.active_offers, !.traded = r.traded]
        IN  IF r.ret.kind = "raise"
            THEN [m EXCEPT !.raised = TRUE, !.outcome = "OSError"]
            ELSE IF r.ret.status = "success"
            THEN _handle_buy_success(agent, m, r.ret.data)
            ELSE _handle_buy_failure(agent, m)

_handle_post_validation_NoStockCheck(agent, item, price, qty) ==
    IF \/ item = None \/ item.value = ""
       \/ price = None \/ price.value <= 0
       \/ qty = None \/ qty.value <= 0
    THEN "post: missing or invalid"
    ELSE IF item.value \notin DOMAIN inventory[agent]
    THEN "post: not in inventory"
    ELSE "valid"

\* The validation and the inventory check of _handle_post: the diagnostic of
\* the first check that fails, or "valid".
_handle_post_validation(agent, item, price, qty) ==
    IF \/ item = None \/ item.value = ""
       \/ price = None \/ price.value <= 0
       \/ qty = None \/ qty.value <= 0
    THEN "post: missing or invalid"
    ELSE IF item.value \notin DOMAIN inventory[agent]
    THEN "post: not in inventory"
    ELSE IF qty.value > InvGet(inventory[agent], item.value)
    THEN "post: only have less"
    ELSE "valid"

\* TradingAgent._handle_post.  io is the outcome of the write post_offer
\* makes; the OSError is raised past the handler, before the deduction.
_handle_post(agent, params, io) ==
    LET item == _safe_str(Get(params, "item"))
        price == _safe_float(Get(params, "price"), "price")
        qty == _safe_int(Get(params, "qty"), "qty")
    IN  IF price.kind = "raise" \/ qty.kind = "raise"
        THEN ConversionRaised(agent, "post: type conversion error",
                IF price.kind = "raise" THEN price ELSE qty)
        ELSE IF _handle_post_validation(agent, item, price, qty) # "valid"
        THEN [Untouched(agent) EXCEPT
                !.outcome = _handle_post_validation(agent, item, price, qty)]
        ELSE
        LET r == post_offer(agent, item.value, price.value, qty.value * 10, io)
            m == [Untouched(agent) EXCEPT !.offer_counter = r.offer_counter,
                    !.active_offers = r.active_offers, !.issued = r.issued]
        IN  IF r.ret.kind = "raise"
            THEN [m EXCEPT !.raised = TRUE, !.outcome = "OSError"]
            ELSE [m EXCEPT
                    !.inventory = [inventory EXCEPT ![agent] =
                                    InvSet(inventory[agent], item.value,
                                      inventory[agent][item.value] - qty.value)],
                    !.memory = add_memory(agent,
                        MemoryEntry("Posted an offer", 3, "")),
                    !.outcome = "post: posted"]

\* ------------------------------------------------------------------ turn

\* A string of the decision text that the code inspects by character: the
\* tuple of its characters.
UpperCase ==
    <<"A", "B", "C", "D", "E", "F", "G", "H", "I", "J", "K", "L", "M",
      "N", "O", "P", "Q", "R", "S", "T", "U", "V", "W", "X", "Y", "Z">>
LowerCase ==
    <<"a", "b", "c", "d", "e", "f", "g", "h", "i", "j", "k", "l", "m",
      "n", "o", "p", "q", "r", "s", "t", "u", "v", "w", "x", "y", "z">>

Lower_AsIs(s) == s

\* The lower-case letter of each upper-case letter.
LowerOf ==
    [c \in {UpperCase[k] : k \in 1..Len(UpperCase)} |->
        LowerCase[CHOOSE k \in 1..Len(UpperCase) : UpperCase[k] = c]]

\* str.lower()
Lower(s) ==
    [i \in 1..Len(s) |->
        IF s[i] \in DOMAIN LowerOf THEN LowerOf[s[i]] ELSE s[i]]

\* sub in s
Contains(sub, s) ==
    \E k \in 0..(Len(s) - Len(sub)) : \A i \in 1..Len(sub) : s[k + i] = sub[i]

\* Command strings: "buy", "Post/Buy", "post", "wait", "", "hold".
Commands ==
    {<<"b", "u", "y">>,
     <<"P", "o", "s", "t", "/", "B", "u", "y">>,
     <<"p", "o", "s", "t">>,
     <<"w", "a", "i", "t">>, <<>>, <<"h", "o", "l", "d">>}

BuyCommands == {c \in Commands : Contains(<<"b", "u", "y">>, Lower(c))}
PostCommands == {c \in Commands \ BuyCommands : Contains(<<"p", "o", "s", "t">>, Lower(c))}
WaitCommands == Commands \ (BuyCommands \cup PostCommands)

Dict(d) == [t |-> "dict", d |-> d]

\* "params" of decisions that ask to buy: offer_id absent, "", "null",
\* "abc", 1, 2, "1.2", 1e999; quantity absent, "", "null", 1, "abc".
BuyParams ==
    {Dict([offer_id |-> o, quantity |-> PyNone]) :
        o \in {PyStr("abc"), PyNum(10), PyNum(20), PyNumStr(12)}}
    \cup {Dict([offer_id |-> PyNum(10), quantity |-> q]) :
        q \in {PyNum(10), PyStr("abc"), PyStr(""), PyStr("null")}}
    \cup {Dict([offer_id |-> o, quantity |-> PyNum(10)]) :
        o \in {PyStr(""), PyStr("null"), PyInf}}
    \cup {Dict([quantity |-> PyNum(10)])}

\* "params" of decisions that ask to post: 10 Wood at 5.0 each, and that
\* with the item, the price or the quantity changed or left out.
PostParams ==
    {Dict([item |-> i, price |-> PyNum(50), qty |-> PyNum(100)]) :
        i \in {PyStr("Wood"), PyStr(" Wood "), PyStr("Stone"), PyStr("  ")}}
    \cup {Dict([item |-> PyStr("Wood"), price |-> pr, qty |-> PyNum(100)]) :
        pr \in {PyNum(0), PyStr("abc")}}
    \cup {Dict([item |-> PyStr("Wood"), price |-> PyNum(50), qty |-> q]) :
        q \in {PyNum(150), PyNumStr(57), PyStr("abc"), PyStr(""), PyNum(-10)}}
    \cup {Dict([price |-> PyNum(50), qty |-> PyNum(100)]),
          Dict([item |-> PyStr("Wood"), qty |-> PyNum(100)]),
          Dict([item |-> PyStr("Wood"), price |-> PyNum(50)])}

\* What perceive_and_act may hand to step: text that is not JSON, JSON that
\* is no object, an object, or (the completion call having failed) the
\* substitute.  An object's command is a string, null or absent; its params
\* are a dict or null.
Decisions ==
    {[kind |-> "text"], [kind |-> "value"], [kind |-> "api_error"]}
    \cup {[kind |-> "object", command |-> PyStr(<<"b", "u", "y">>), params |-> pp] :
            pp \in BuyParams}
    \cup {[kind |-> "object", command |-> PyStr(c),
           params |-> Dict([offer_id |-> PyNum(10), quantity |-> PyNone])] :
            c \in BuyCommands}
    \cup {[kind |-> "object", command |-> PyStr(c), params |-> pp] :
            c \in PostCommands, pp \in PostParams}
    \cup {[kind |-> "object", command |-> PyStr(c), params |-> Dict(<<>>)] :
            c \in WaitCommands}
    \cup {[kind |-> "object", command |-> c, params |-> Dict(<<>>)] :
            c \in {PyNone, PyMissing}}
    \cup {[kind |-> "object", command |-> PyStr(c), params |-> PyNone] :
            c \in {<<"b", "u", "y">>, <<"p", "o", "s", "t">>}}

perceive_and_act_TextAsWait(decision) ==
    IF decision.kind \in {"api_error", "text", "value"}
    THEN [kind |-> "object", command |-> PyStr(<<"w", "a", "i", "t">>),
          params |-> Dict(<<>>)]
    ELSE decision

perceive_and_act_ErrorAsText(decision) ==
    IF decision.kind = "api_error" THEN [kind |-> "text"] ELSE decision

\* perceive_and_act: the text of the completion, or, when the call raised,
\* the wait decision that replaces it.
perceive_and_act(decision) ==
    IF decision.kind = "api_error"
    THEN [kind |-> "object", command |-> PyStr(<<"w", "a", "i", "t">>),
          params |-> Dict(<<>>)]
    ELSE decision

Wait_Silent(agent) == [Untouched(agent) EXCEPT !.outcome = "wait"]

\* The else branch of step: the agent waits.
Wait(agent) ==
    [Untouched(agent) EXCEPT
        !.memory = add_memory(agent, MemoryEntry("Decided to wait", 1, "")),
        !.outcome = "wait"]

\* The try block of step: one turn of agent on the decision it was given, as
\* the market's fields and the agents' own after it, and whether it raised.
step_try(agent, raw_decision, io) ==
        IF raw_decision.kind = "text"
        THEN [Untouched(agent) EXCEPT !.raised = TRUE, !.outcome = "JSON parse error"]
        ELSE IF raw_decision.kind = "value"
        THEN [Untouched(agent) EXCEPT !.raised = TRUE, !.outcome = "AttributeError"]
        ELSE IF raw_decision.command.t \notin {"str", "missing"}
        THEN [Untouched(agent) EXCEPT !.raised = TRUE, !.outcome = "AttributeError"]
        ELSE
        LET command == Lower(IF raw_decision.command.t = "missing" THEN <<>>
                             ELSE raw_decision.command.s)
            params == raw_decision.params
            isBuy == Contains(<<"b", "u", "y">>, command)
            isPost == Contains(<<"p", "o", "s", "t">>, command)
        IN  IF (isBuy \/ isPost) /\ params.t # "dict"
            THEN [Untouched(agent) EXCEPT !.raised = TRUE,
                    !.outcome = "AttributeError",
                    !.handler = IF isBuy THEN "_handle_buy" ELSE "_handle_post"]
            ELSE IF isBuy
            THEN [_handle_buy(agent, params.d, io) EXCEPT !.handler = "_handle_buy"]
            ELSE IF isPost
            THEN [_handle_post(agent, params.d,
                               IF io = "_save_offers" THEN "OSError" ELSE "ok")
                    EXCEPT !.handler = "_handle_post"]
            ELSE [Wait(agent) EXCEPT !.handler = "wait"]

step_except_JSONDecodeErrorOnly(outcome) == outcome = "JSON parse error"

\* The except clauses of step: whether the exception of the try block is
\* caught.  json.JSONDecodeError is caught by the first clause, AttributeError,
\* OSError and OverflowError, being Exceptions, by the second.
step_except(outcome) ==
    \/ outcome = "JSON parse error"
    \/ outcome \in {"AttributeError", "OSError", "OverflowError"}

\* TradingAgent.step: the turn of agent; raised tells whether an exception
\* leaves step.
step(agent, decision, io) ==
    LET raw_decision == perceive_and_act(decision)
        r == step_try(agent, raw_decision, io)
    IN  [r EXCEPT !.raised = r.raised /\ ~step_except(r.outcome)]

\* An exception has left step: it leaves run_tick and run as well, neither
\* having a handler, and the run is over.
Aborted == last.op = "step" /\ last.raised

\* run_tick: a tick begins; every agent is to take one turn, in the order
\* random.shuffle gives.
run_tick ==
    /\ ~Aborted
    /\ pending = {}
    /\ tick < TotalTicks
    /\ tick' = tick + 1
    /\ pending' = Agents
    /\ last' = [op |-> "run_tick"]
    /\ UNCHANGED <<marketVars, agentVars, edits, hours>>

\* The decisions whose turn may reach a file write: those with a command
\* and a dict of params.
WritingDecisions ==
    {decision \in Decisions :
        /\ decision.kind = "object"
        /\ decision.command.t = "str"
        /\ decision.params.t = "dict"}

\* The next agent of the tick takes its turn.  A write fails only in a turn
\* that makes it, and while the run has faults left.
AgentStep ==
    /\ ~Aborted
    /\ \E agent \in pending, decision \in Decisions :
        \E io \in (IF faults < MaxFaults /\ decision \in WritingDecisions
                   THEN TradeWrites ELSE {"ok"}) :
        \E r \in {step(agent, decision, io)} :
            /\ io # "ok" => r.outcome = "OSError"
            /\ offer_counter' = r.offer_counter
            /\ active_offers' = r.active_offers
            /\ issued' = r.issued
            /\ ledger' = r.ledger
            /\ traded' = r.traded
            /\ faults' = IF io = "ok" THEN faults ELSE faults + 1
            /\ budget' = r.budget
            /\ inventory' = r.inventory
            /\ memory' = r.memory
            /\ pending' = pending \ {agent}
            /\ last' = [op |-> "step", agent |-> agent, decision |-> decision,
                        outcome |-> r.outcome, raised |-> r.raised,
                        handler |-> r.handler, error |-> r.error]
            /\ UNCHANGED <<tick, edits, hours>>

\* ------------------------------------------------------------------ spec

\* MarketWorld.__init__ and MarketSimulation.__init__.  A run of the
\* simulation is over within the hour; hours pass for a memory stream that
\* is read later (HourPasses).
Init ==
    /\ offer_counter = 0
    /\ active_offers = <<>>
    /\ ledger = <<>>
    /\ budget = [a \in Agents |-> Role(a).budget]
    /\ inventory = [a \in Agents |-> Role(a).inventory]
    /\ memory = [a \in Agents |-> <<>>]
    /\ tick = 0
    /\ pending = {}
    /\ last = [op |-> "init"]
    /\ faults = 0
    /\ issued = <<>>
    /\ traded = <<>>
    /\ edits = 0
    /\ hours = 0

\* The market driven through its API by arbitrary callers.
Next == PostOfferCall \/ ExecuteTradeCall

Spec == Init /\ [][Next]_vars

\* The simulation: ticks of agent turns.
SimNext == run_tick \/ AgentStep

SimSpec == Init /\ [][SimNext]_vars

\* The market driven through its API by callers that also read the board and
\* edit what they read.
CallerNext == PostOfferCall \/ ExecuteTradeCall \/ GetMarketStateCall

CallerSpec == Init /\ [][CallerNext]_vars

\* The values a decision may carry for a numeric parameter: numbers and
\* numeric strings of up to MaxTenths tenths either side of zero, the values
\* that stand for no value, and values float() rejects or cannot round.
CoercionValues ==
    {PyNum(v) : v \in -MaxTenths..MaxTenths}
    \cup {PyNumStr(v) : v \in -MaxTenths..MaxTenths}
    \cup {PyNone, PyStr(""), PyStr("null"), PyStr("abc"),
          PyStr("not_a_number"), PyList, PyInf}

ParamNames == {"offer_id", "quantity", "price", "qty"}

\* A call of self._safe_int(value, param_name).
SafeIntCall ==
    \E value \in CoercionValues, param_name \in ParamNames :
        /\ last' = [op |-> "_safe_int", value |-> value,
                    param_name |-> param_name,
                    ret |-> _safe_int(value, param_name)]
        /\ UNCHANGED <<marketVars, agentVars, tickVars>>

\* A call of self._safe_float(value, param_name).
SafeFloatCall ==
    \E value \in CoercionValues, param_name \in ParamNames :
        /\ last' = [op |-> "_safe_float", value |-> value,
                    param_name |-> param_name,
                    ret |-> _safe_float(value, param_name)]
        /\ UNCHANGED <<marketVars, agentVars, tickVars>>

\* The quantities a buy decision may ask for: none, 0, -1, 1, 6, 10, 25 and
\* the string "6"; the offers posted are of 6 and of 10 units.
BuyQuantities ==
    {PyNone, PyNum(0), PyNum(-10), PyNum(10), PyNum(60), PyNum(100),
     PyNum(250), PyNumStr(60)}

\* The ids of the open offers.
OpenIds == {active_offers[i].offer_id : i \in 1..Len(active_offers)}

\* The decision to buy offer offer_id, asking for quantity.
BuyDecision(offer_id, quantity) ==
    [kind |-> "object", command |-> PyStr(<<"b", "u", "y">>),
     params |-> Dict([offer_id |-> PyNum(10 * offer_id),
                      quantity |-> quantity])]

\* The decisions to post 6 or 10 Wood at 5.0 each.
SellDecisions ==
    {[kind |-> "object", command |-> PyStr(<<"p", "o", "s", "t">>),
      params |-> Dict([item |-> PyStr("Wood"), price |-> PyNum(50),
                       qty |-> q])] : q \in {PyNum(60), PyNum(100)}}

\* The number of turns of the run so far that have left a memory.
Turns ==
    Cardinality({x \in Agents \X (1..MaxTurns) : x[2] <= Len(memory[x[1]])})

\* The turn of agent on decision, io naming the write that fails, if one
\* does: the fields after it.  Turns are taken while fewer than MaxTurns
\* have left a memory.
Turn(agent, decision, io) ==
    \E r \in {step(agent, decision, io)} :
        /\ Turns < MaxTurns
        /\ io # "ok" => (faults < MaxFaults /\ r.outcome = "OSError")
        /\ offer_counter' = r.offer_counter
        /\ active_offers' = r.active_offers
        /\ issued' = r.issued
        /\ ledger' = r.ledger
        /\ traded' = r.traded
        /\ faults' = IF io = "ok" THEN faults ELSE faults + 1
        /\ budget' = r.budget
        /\ inventory' = r.inventory
        /\ memory' = r.memory
        /\ last' = [op |-> "step", agent |-> agent, decision |-> decision,
                    outcome |-> r.outcome, raised |-> r.raised,
                    handler |-> r.handler, error |-> r.error, io |-> io]
        /\ UNCHANGED tickVars

\* The turn of an agent that decides to post.
SellStep ==
    \E agent \in Agents, decision \in SellDecisions, io \in IOOutcomes :
        Turn(agent, decision, io)

\* The turn of an agent that decides to buy an open offer.
BuyStep ==
    \E agent \in Agents, offer_id \in OpenIds, quantity \in BuyQuantities,
       io \in TradeWrites :
        Turn(agent, BuyDecision(offer_id, quantity), io)

\* Agents posting offers and buying open offers.
BuyNext == SellStep \/ BuyStep

BuySpec == Init /\ [][BuyNext]_vars

\* The type coercion helpers applied to the values decisions carry.
CoerceNext == SafeIntCall \/ SafeFloatCall

CoerceSpec == Init /\ [][CoerceNext]_vars

\* What add_memory is given: a content, an importance and the partner of
\* the metadata ("" for none).  Two trades with one seller differ in content
\* alone.
MemoryInputs ==
    {<<"Bought 3 Wood", 7, "Panic_Paul">>,
     <<"Bought 5 Wood", 7, "Panic_Paul">>,
     <<"Posted an offer", 3, "">>,
     <<"Decided to wait", 1, "">>}

\* The agent whose memory stream is exercised: streams do not interact.
MemoryOwner == "Poor_Carpenter_Dan"

\* A call of add_memory on the stream.
AddMemoryCall ==
    \E x \in MemoryInputs :
        /\ Len(memory[MemoryOwner]) < MaxEntries
        /\ memory' = add_memory(MemoryOwner, MemoryEntry(x[1], x[2], x[3]))
        /\ last' = [op |-> "add_memory"]
        /\ UNCHANGED <<marketVars, budget, inventory, tickVars>>

\* An hour passes.
HourPasses ==
    /\ hours < MaxHours
    /\ hours' = hours + 1
    /\ last' = [op |-> "time"]
    /\ UNCHANGED <<marketVars, agentVars, tick, pending, edits>>

\* A call of retrieve_relevant_memories on the stream.
RetrieveCall ==
    \E partner_name \in {"", "Panic_Paul"}, limit \in 0..MaxEntries :
        /\ last' = [op |-> "retrieve_relevant_memories",
                    partner_name |-> partner_name, limit |-> limit,
                    ret |-> retrieve_relevant_memories(
                                memory[MemoryOwner], partner_name, limit)]
        /\ UNCHANGED <<marketVars, agentVars, tickVars>>

\* A memory stream that is written and read as time passes.
MemoryNext == AddMemoryCall \/ HourPasses \/ RetrieveCall

MemorySpec == Init /\ [][MemoryNext]_vars

\* ------------------------------------------------------------- properties

IsPostOffer(l) == l.op = "post_offer"
IsExecuteTrade(l) == l.op = "execute_trade"
TradeSucceeded(l) == IsExecuteTrade(l) /\ l.ret.kind = "dict" /\ l.ret.status = "success"

\* The sum of f[x] over the finite set S.
RECURSIVE SumOver(_, _)
SumOver(S, f) ==
    IF S = {} THEN 0
    ELSE LET x == CHOOSE y \in S : TRUE IN f[x] + SumOver(S \ {x}, f)

\* The units of item held in the agents' inventories.
HeldUnits(item) ==
    SumOver(Agents, [a \in Agents |-> InvGet(inventory[a], item)])

\* The units of item on the board.
OpenUnits(item) ==
    SumOver(1..Len(active_offers),
            [i \in 1..Len(active_offers) |->
                IF active_offers[i].item = item
                THEN active_offers[i].quantity ELSE 0])

\* The units of item the roles start with.
InitialUnits(item) ==
    SumOver(Agents, [a \in Agents |-> InvGet(Role(a).inventory, item)])

KnownItems ==
    UNION {DOMAIN inventory[a] : a \in Agents}
    \cup {active_offers[i].item : i \in 1..Len(active_offers)}
    \cup UNION {DOMAIN Role(a).inventory : a \in Agents}

\* C1: conservation of goods: for every item, in every state the agents'
\* turns reach, the units in the agents' inventories plus the units of the
\* open offers are the units the agents started with.
C1_ConservationOfGoods ==
    \A item \in KnownItems : HeldUnits(item) + OpenUnits(item) = InitialUnits(item)

\* C2: every offer post_offer creates gets a positive integer offer_id that
\* is strictly greater than the id of every offer created before it, whether
\* or not those offers are still open and whatever posts were rejected in
\* between; the open offers carry pairwise different ids.
C2_OfferIdsUniqueMonotonic ==
    /\ \A i \in 1..Len(issued) :
        /\ issued[i].offer_id \in Nat \ {0}
        /\ \A j \in 1..(i - 1) : issued[j].offer_id < issued[i].offer_id
    /\ \A i, j \in 1..Len(active_offers) :
        active_offers[i].offer_id = active_offers[j].offer_id => i = j
    /\ \A i \in 1..Len(active_offers) :
        \E k \in 1..Len(issued) : issued[k] = active_offers[i]

\* C2's case: two offers were created with a rejected post between them, and
\* the first has been consumed by a trade.
C2_Witness ==
    /\ Len(issued) = 2
    /\ issued[1].offer_id = 1
    /\ issued[2].offer_id = 3
    /\ Len(traded) = 1
    /\ traded[1] = 1

\* C3: a post_offer whose quantity rounds, half away from zero, to a positive
\* integer k is accepted, creates an offer of quantity exactly k, and makes
\* the open offers one more.
C3_PostRoundsHalfAwayFromZero ==
    [][(IsPostOffer(last') /\ RoundHalfAway(last'.quantity) > 0)
        => /\ last'.ret # None
           /\ Len(active_offers') = Len(active_offers) + 1
           /\ active_offers'[Len(active_offers')].quantity
                = RoundHalfAway(last'.quantity)]_vars

\* C4 as claimed: a post_offer whose quantity rounds to <= 0 returns the
\* rejected result, leaves the open offers unchanged and leaves the offer-id
\* counter at the value it had before the call.
C4_RejectedPostKeepsCounter ==
    [][(IsPostOffer(last') /\ RoundHalfAway(last'.quantity) <= 0)
        => /\ last'.ret = None
           /\ active_offers' = active_offers
           /\ offer_counter' = offer_counter]_vars

\* C4 as amended: a post_offer whose quantity rounds to <= 0 returns the
\* rejected result without raising and leaves the open offers unchanged; the
\* offer-id counter advances by exactly one, so the attempt's id is consumed.
C4_RejectedPostConsumesId ==
    [][(IsPostOffer(last') /\ PyRound(last'.quantity) <= 0)
        => /\ last'.ret = None
           /\ active_offers' = active_offers
           /\ issued' = issued
           /\ offer_counter' = offer_counter + 1]_vars

\* C4's case: a post of quantity 0.3 has just been rejected while an offer
\* is open.
C4_Witness ==
    /\ IsPostOffer(last)
    /\ last.quantity = 3
    /\ last.ret = None
    /\ active_offers # <<>>

\* C5: after a successful execute_trade(buyer, id) the offer with that id is
\* gone from the open offers, every other open offer is still there,
\* unchanged and in the same relative order, and the trade history is the old
\* one with exactly one row appended: buyer the caller, and seller, item,
\* price and quantity those of the consumed offer.
C5_SuccessfulTradeEffect ==
    [][TradeSucceeded(last')
        => \E i \in 1..Len(active_offers) :
            /\ active_offers[i].offer_id = last'.offer_id
            /\ active_offers' = RemoveAt(active_offers, i)
            /\ last'.offer_id \notin OpenIds'
            /\ ledger' = Append(ledger,
                    [seller |-> active_offers[i].seller,
                     buyer |-> last'.buyer,
                     item |-> active_offers[i].item,
                     price |-> active_offers[i].price,
                     quantity |-> active_offers[i].quantity])]_vars

\* C5's case: a trade has just succeeded on the second of three open offers,
\* so that an offer before it and an offer after it remain.
C5_Witness ==
    /\ TradeSucceeded(last)
    /\ last.offer_id = 2
    /\ Len(active_offers) = 2
    /\ active_offers[1].offer_id = 1
    /\ active_offers[2].offer_id = 3

\* C6: execute_trade with an id that is not in the open set returns the
\* error result 'Offer not found' and leaves the open offers, the trade
\* history and the offer-id counter unchanged; the same holds of every
\* repetition of the call, the state being the same.
C6_UnknownOfferIsCleanError ==
    [][(IsExecuteTrade(last') /\ last'.offer_id \notin OpenIds)
        => /\ last'.ret = TradeError
           /\ active_offers' = active_offers
           /\ ledger' = ledger
           /\ traded' = traded
           /\ offer_counter' = offer_counter]_vars

\* C6's case: execute_trade has just failed on the id of an offer that an
\* earlier trade consumed, while another offer is open.
C6_Witness ==
    /\ IsExecuteTrade(last)
    /\ last.ret = TradeError
    /\ \E i \in 1..Len(traded) : traded[i] = last.offer_id
    /\ active_offers # <<>>

\* C7: every offer is consumed at most once and whole: the trade history
\* holds at most one row per created offer, each row carrying the full
\* quantity its offer was posted with; an offer that has left the open set
\* never appears in it again, and every later execute_trade on its id fails.
C7_OfferConsumedAtMostOnce ==
    /\ [](/\ \A i, j \in 1..Len(traded) : traded[i] = traded[j] => i = j
          /\ \A i \in 1..Len(traded) :
                \E k \in 1..Len(issued) :
                    /\ issued[k].offer_id = traded[i]
                    /\ issued[k].quantity = ledger[i].quantity)
    /\ [][\A id \in 1..offer_counter :
            id \notin OpenIds
                => /\ id \notin OpenIds'
                   /\ (IsExecuteTrade(last') /\ last'.offer_id = id)
                        => last'.ret = TradeError]_vars

\* C8: execute_trade is all-or-nothing: the call never raises, and no trade
\* row exists for an offer that is still open.
C8_TradeAllOrNothing ==
    /\ IsExecuteTrade(last) => last.ret.kind # "raise"
    /\ \A k \in 1..Len(active_offers) :
        \A i \in 1..Len(traded) : active_offers[k].offer_id # traded[i]

\* C9: the trade history is append-only: every step leaves it as it was or
\* appends exactly one row to it; no row is changed, moved or dropped.
C9_LedgerAppendOnly ==
    [][\/ ledger' = ledger
       \/ /\ Len(ledger') = Len(ledger) + 1
          /\ SubSeq(ledger', 1, Len(ledger)) = ledger]_vars

\* C9's case: the history holds two rows of different quantities, the second
\* appended to the table the first trade made.
C9_Witness ==
    /\ Len(ledger) = 2
    /\ ledger[1].quantity # ledger[2].quantity

\* C10: every open offer and every trade row has a quantity that is an
\* integer greater than 0, and a posting that rounds to <= 0 is not stored:
\* no open offer carries the id its attempt consumed.
C10_QuantitiesPositiveIntegers ==
    /\ \A i \in 1..Len(active_offers) : active_offers[i].quantity \in Nat \ {0}
    /\ \A i \in 1..Len(ledger) : ledger[i].quantity \in Nat \ {0}
    /\ (IsPostOffer(last) /\ PyRound(last.quantity) <= 0)
        => offer_counter \notin OpenIds

\* C10's case: a post of quantity -2 has just been rejected while an offer is
\* open and a trade is on record.
C10_Witness ==
    /\ IsPostOffer(last)
    /\ last.quantity = -20
    /\ active_offers # <<>>
    /\ ledger # <<>>


\* C11: get_market_state gives a read-only snapshot: the open offers change
\* only in post_offer and execute_trade, so a caller's edit of the value it
\* was given changes nothing that a later get_market_state or execute_trade
\* sees.
C11_MarketStateIsSnapshot ==
    [][/\ active_offers' # active_offers
            => (IsPostOffer(last') \/ IsExecuteTrade(last'))
       /\ last'.op = "get_market_state"
            => /\ get_market_state'.value = get_market_state.value
               /\ \A offer_id \in 1..(MaxCounter + 1) :
                    execute_trade("TestBuyer", offer_id, "ok")'
                        = execute_trade("TestBuyer", offer_id, "ok")]_vars


IsStep(l) == l.op = "step"

\* The decision is a structured object whose command is a string and whose
\* params are an object.
IsCommand(decision) ==
    /\ decision.kind = "object"
    /\ decision.command.t = "str"
    /\ decision.params.t = "dict"

\* A BuyCommand: the command names buy, and the quantity, which the trade
\* does not use, is a number or is not given.
IsBuyCommand(decision) ==
    /\ IsCommand(decision)
    /\ Contains(<<"b", "u", "y">>, Lower(decision.command.s))
    /\ Get(decision.params.d, "quantity").t \in {"None", "num"}

\* The offer id a BuyCommand gives when it gives an integer, else 0 (the id
\* of no offer).
BuyOfferId(decision) ==
    LET v == Get(decision.params.d, "offer_id")
    IN  IF v.t = "num" /\ v.v % 10 = 0 THEN v.v \div 10 ELSE 0

\* The sequence t is the sequence s with one entry of the given importance
\* appended.
OneEntryAppended(s, t, importance) ==
    /\ Len(t) = Len(s) + 1
    /\ SubSeq(t, 1, Len(s)) = s
    /\ t[Len(t)].importance = importance

\* C12: a BuyCommand on an open offer (item i, unit price p, quantity n)
\* succeeds for every budget b of the buyer, there being no credit check:
\* after the turn the buyer's budget is b - p*n, negative or not, the buyer's
\* inventory[i] is n more, and the buyer's memory has exactly one more entry,
\* of importance 7.
C12_BuySucceedsWithoutCreditCheck ==
    [][\A k \in 1..Len(active_offers) :
        (/\ IsStep(last')
         /\ IsBuyCommand(last'.decision)
         /\ BuyOfferId(last'.decision) = active_offers[k].offer_id)
        => LET buyer == last'.agent
               offer == active_offers[k]
           IN  /\ budget'[buyer] = budget[buyer] - offer.price * offer.quantity
               /\ offer.item \in DOMAIN inventory'[buyer]
               /\ inventory'[buyer][offer.item]
                    = InvGet(inventory[buyer], offer.item) + offer.quantity
               /\ OneEntryAppended(memory[buyer], memory'[buyer], 7)]_vars


\* C13: a BuyCommand whose offer_id is an integer that no open offer carries
\* fails cleanly: the budgets, the inventories, the open offers and the trade
\* history are unchanged, and the buyer's memory has exactly one more entry,
\* of importance 4.
C13_BuyUnknownOfferFailsCleanly ==
    [][(/\ IsStep(last')
        /\ IsBuyCommand(last'.decision)
        /\ BuyOfferId(last'.decision) # 0
        /\ BuyOfferId(last'.decision) \notin OpenIds)
        => /\ budget' = budget
           /\ inventory' = inventory
           /\ active_offers' = active_offers
           /\ ledger' = ledger
           /\ OneEntryAppended(memory[last'.agent], memory'[last'.agent], 4)]_vars

\* C13's case: an agent has just asked to buy the offer that an earlier trade
\* consumed, while another offer is open.
C13_Witness ==
    /\ IsStep(last)
    /\ IsBuyCommand(last.decision)
    /\ \E i \in 1..Len(traded) : traded[i] = BuyOfferId(last.decision)
    /\ BuyOfferId(last.decision) \notin OpenIds
    /\ active_offers # <<>>


\* A PostCommand: the command names post and not buy; the item is a string,
\* the price a number and the quantity a whole number, where they are given.
IsPostCommand(decision) ==
    /\ IsCommand(decision)
    /\ ~Contains(<<"b", "u", "y">>, Lower(decision.command.s))
    /\ Contains(<<"p", "o", "s", "t">>, Lower(decision.command.s))
    /\ Get(decision.params.d, "item").t \in {"None", "str"}
    /\ Get(decision.params.d, "price").t \in {"None", "num", "numstr"}
    /\ LET qty == Get(decision.params.d, "qty")
       IN  qty.t = "None" \/ (qty.t \in {"num", "numstr"} /\ qty.v % 10 = 0)

Absent(v) == v.t = "None"

\* The PostCommand violates a precondition: item absent or empty, price
\* absent or <= 0, quantity absent or <= 0, item no key of the agent's
\* inventory, or quantity more than the agent holds.
PostViolates(agent, decision) ==
    LET item == Get(decision.params.d, "item")
        price == Get(decision.params.d, "price")
        qty == Get(decision.params.d, "qty")
    IN  \/ Absent(item) \/ Strip(item.s) = ""
        \/ Absent(price) \/ price.v <= 0
        \/ Absent(qty) \/ qty.v <= 0
        \/ Strip(item.s) \notin DOMAIN inventory[agent]
        \/ qty.v \div 10 > inventory[agent][Strip(item.s)]

\* C14: a PostCommand that violates a precondition is rejected with no change
\* of state: the inventories, budgets and memories, the open offers, the
\* offer-id counter and the trade history are as they were before the turn.
C14_RejectedPostChangesNothing ==
    [][(/\ IsStep(last')
        /\ IsPostCommand(last'.decision)
        /\ PostViolates(last'.agent, last'.decision))
        => /\ inventory' = inventory
           /\ budget' = budget
           /\ memory' = memory
           /\ active_offers' = active_offers
           /\ offer_counter' = offer_counter
           /\ ledger' = ledger]_vars

\* C14's case: an agent that holds 10 Wood has just asked to post 15, a trade
\* being on record.
C14_Witness ==
    /\ IsStep(last)
    /\ IsPostCommand(last.decision)
    /\ Get(last.decision.params.d, "qty") = PyNum(150)
    /\ InvGet(inventory[last.agent], "Wood") = 10
    /\ ledger # <<>>


\* What a turn on a valid PostCommand is to do: the agent's count of the item
\* is less by the quantity, the board has one more offer, the agent's, of
\* that item, price and quantity, the budgets are as before, and the agent's
\* memory has one more entry, of importance 3.
PostEffect(agent, decision) ==
    LET item == Strip(Get(decision.params.d, "item").s)
        price == Get(decision.params.d, "price").v
        q == Get(decision.params.d, "qty").v \div 10
    IN  /\ inventory'[agent][item] = inventory[agent][item] - q
        /\ Len(active_offers') = Len(active_offers) + 1
        /\ SubSeq(active_offers', 1, Len(active_offers)) = active_offers
        /\ LET offer == active_offers'[Len(active_offers')]
           IN  /\ offer.seller = agent
               /\ offer.item = item
               /\ offer.price = price
               /\ offer.quantity = q
        /\ budget' = budget
        /\ OneEntryAppended(memory[agent], memory'[agent], 3)

\* C15: a PostCommand (item i, price p > 0, integer quantity q > 0) by an
\* agent that holds at least q of i succeeds: inventory[i] is less by exactly
\* q, exactly one new open offer (the agent's, i, p, q) is on the board, the
\* budget is unchanged and exactly one memory entry of importance 3 is added.
C15_ValidPostSucceeds ==
    [][(/\ IsStep(last')
        /\ IsPostCommand(last'.decision)
        /\ ~PostViolates(last'.agent, last'.decision))
        => PostEffect(last'.agent, last'.decision)]_vars


\* C16: the inventories stay well-formed: after any turns of any agents every
\* count of every agent's inventory is an integer >= 0.
C16_InventoriesNonNegative ==
    \A a \in Agents : \A item \in DOMAIN inventory[a] : inventory[a][item] \in Nat

\* C16's case: an agent has posted all it held and holds 0, and the agent
\* that started with nothing has bought and holds a positive count.
C16_Witness ==
    /\ inventory["Panic_Paul"]["Wood"] = 0
    /\ InvGet(inventory["Poor_Carpenter_Dan"], "Wood") > 0


\* C17: private state is exclusively owned: a turn of agent A changes at most
\* A's own budget, inventory and memory, and the market; the budget, the
\* inventory and the memory of every other agent are as they were, those of
\* the seller whose offer A buys included.
C17_TurnTouchesOnlyOwnState ==
    [][IsStep(last')
        => \A other \in Agents \ {last'.agent} :
            /\ budget'[other] = budget[other]
            /\ inventory'[other] = inventory[other]
            /\ memory'[other] = memory[other]]_vars

\* C17's case: an agent has just bought the offer of another agent.
C17_Witness ==
    /\ IsStep(last)
    /\ last.outcome = "buy: success"
    /\ ledger # <<>>
    /\ ledger[Len(ledger)].buyer = last.agent
    /\ ledger[Len(ledger)].seller # last.agent


\* run(total_ticks) has returned: the last tick is over.
RunReturned == tick = TotalTicks /\ pending = {}

\* The turns run(total_ticks) has still to make, and the ticks it has still
\* to begin.
Remaining ==
    (TotalTicks - tick) * (Cardinality(Agents) + 1) + Cardinality(pending)

\* C18: errors are contained in the turn: within a tick every agent steps
\* exactly once (a tick begins with every agent still to step, a step is the
\* turn of an agent still to step and takes it off, and the next tick begins
\* only when none is left); whatever the decision, step returns normally, so
\* the run goes on until it has returned; and it returns after exactly
\* total_ticks ticks, every step leaving less to do.
C18_ErrorsContainedRunTerminates ==
    /\ [](/\ IsStep(last) => ~last.raised
          /\ tick \in 0..TotalTicks
          /\ Remaining \in Nat
          /\ RunReturned \/ ENABLED SimNext)
    /\ [][/\ IsStep(last') => /\ last'.agent \in pending
                              /\ pending' = pending \ {last'.agent}
                              /\ tick' = tick
          /\ ~IsStep(last') => /\ pending = {}
                               /\ pending' = Agents
                               /\ tick' = tick + 1
          /\ Remaining' < Remaining]_vars

\* C18's case: the run has returned after turns on text that is no JSON, on a
\* buy of an offer that is not open and on a failed call of the decision
\* generator.
C18_Witness ==
    /\ RunReturned
    /\ IsStep(last)
    /\ last.decision.kind = "text"
    /\ \E a \in Agents :
        \E i, j \in 1..Len(memory[a]) :
            /\ i < j
            /\ memory[a][i].importance = 4
            /\ memory[a][j].importance = 1


\* C19: when the decision text does not parse as a structured object (it is
\* no JSON, or JSON that is no object), the turn is a no-op: step returns
\* without raising, and the budgets, inventories and memories, the open
\* offers, the offer-id counter and the trade history are unchanged.
C19_UnparsableDecisionIsNoOp ==
    [][(IsStep(last') /\ last'.decision.kind \in {"text", "value"})
        => /\ ~last'.raised
           /\ budget' = budget
           /\ inventory' = inventory
           /\ memory' = memory
           /\ active_offers' = active_offers
           /\ offer_counter' = offer_counter
           /\ ledger' = ledger]_vars

\* C19's case: an agent that has memories has just had its turn on text that
\* is no JSON, an offer being open and a trade on record.
C19_Witness ==
    /\ IsStep(last)
    /\ last.decision.kind = "text"
    /\ memory[last.agent] # <<>>
    /\ active_offers # <<>>
    /\ ledger # <<>>

\* C20: when the call of the decision generator fails, a WaitCommand takes
\* the place of the decision and the turn ends as a wait does: the agent has
\* this one turn and no second try in the tick, the budgets, the inventories
\* and the market are unchanged, the agent's memory has exactly one more
\* entry, of importance 1, the other memories are unchanged, and no exception
\* leaves step.
C20_GeneratorFailureIsWait ==
    [][(IsStep(last') /\ last'.decision.kind = "api_error")
        => /\ ~last'.raised
           /\ last'.outcome = "wait"
           /\ pending' = pending \ {last'.agent}
           /\ budget' = budget
           /\ inventory' = inventory
           /\ <<offer_counter, active_offers, ledger>>'
                = <<offer_counter, active_offers, ledger>>
           /\ OneEntryAppended(memory[last'.agent], memory'[last'.agent], 1)
           /\ \A other \in Agents \ {last'.agent} :
                memory'[other] = memory[other]]_vars

\* C20's case: the call has just failed for an agent that holds an open offer
\* and has a memory of it.
C20_Witness ==
    /\ IsStep(last)
    /\ last.decision.kind = "api_error"
    /\ Len(memory[last.agent]) >= 2
    /\ \E i \in 1..Len(active_offers) : active_offers[i].seller = last.agent


\* The word, all of its letters lower case, is in s in some letter case.
ContainsAnyCase(word, s) ==
    \E k \in 0..(Len(s) - Len(word)) :
        \A i \in 1..Len(word) :
            \/ s[k + i] = word[i]
            \/ \E j \in 1..Len(LowerCase) :
                LowerCase[j] = word[i] /\ UpperCase[j] = s[k + i]

\* The decision is an object whose command is a string or is missing, the
\* string being empty when it is missing.
HasCommandString(decision) ==
    decision.kind = "object" /\ decision.command.t \in {"str", "missing"}

CommandString(decision) ==
    IF decision.command.t = "missing" THEN <<>> ELSE decision.command.s

\* The command a string selects: buy if 'buy' is in it, else post if 'post'
\* is in it, else wait.
Selected(s) ==
    IF ContainsAnyCase(<<"b", "u", "y">>, s) THEN "_handle_buy"
    ELSE IF ContainsAnyCase(<<"p", "o", "s", "t">>, s) THEN "_handle_post"
    ELSE "wait"

\* C21: the command is selected by substring, whatever the letter case, in a
\* fixed order: a string with 'buy' in it is handled as a BuyCommand, also
\* when 'post' is in it as well; a string with 'post' and without 'buy' as a
\* PostCommand; every other string, the missing one included, as a
\* WaitCommand.  The selection depends on the string alone.
C21_CommandSelectedBySubstring ==
    (IsStep(last) /\ HasCommandString(last.decision))
    => last.handler = Selected(CommandString(last.decision))

\* C21's case: a turn on the command 'Post/Buy' has been handled as a buy.
C21_Witness ==
    /\ IsStep(last)
    /\ HasCommandString(last.decision)
    /\ CommandString(last.decision) = <<"P", "o", "s", "t", "/", "B", "u", "y">>
    /\ last.handler = "_handle_buy"
    /\ last.outcome = "buy: success"

\* C22: a WaitCommand, or a command that is neither buy nor post, changes
\* nothing but the acting agent's memory: the budgets, the inventories, the
\* open offers, the offer-id counter and the trade history are unchanged, the
\* other agents' memories too, and the agent's memory has exactly one more
\* entry, of importance 1.
C22_WaitChangesOnlyMemory ==
    [][(/\ IsStep(last')
        /\ HasCommandString(last'.decision)
        /\ Selected(CommandString(last'.decision)) = "wait")
        => /\ budget' = budget
           /\ inventory' = inventory
           /\ active_offers' = active_offers
           /\ offer_counter' = offer_counter
           /\ ledger' = ledger
           /\ OneEntryAppended(memory[last'.agent], memory'[last'.agent], 1)
           /\ \A other \in Agents \ {last'.agent} :
                memory'[other] = memory[other]]_vars

\* C22's case: an agent has just had its turn on the command 'hold', which
\* is no command, an offer being open and a trade on record.
C22_Witness ==
    /\ IsStep(last)
    /\ HasCommandString(last.decision)
    /\ CommandString(last.decision) = <<"h", "o", "l", "d">>
    /\ active_offers # <<>>
    /\ ledger # <<>>


\* The values that stand for 'no value provided': None (a JSON null or a
\* missing key), the empty string and the string "null".
NoValues == {PyNone, PyStr(""), PyStr("null")}

\* The decision asks to buy and its params are an object.
AsksToBuy(decision) ==
    /\ IsCommand(decision)
    /\ Selected(decision.command.s) = "_handle_buy"

\* The open offer with the id that the params give as a whole number, as a
\* set: empty when the id is none or no open offer has it.
OfferAsked(decision) ==
    LET v == Get(decision.params.d, "offer_id")
    IN  {active_offers[k] : k \in {i \in 1..Len(active_offers) :
            /\ v.t = "num"
            /\ v.v % 10 = 0
            /\ active_offers[i].offer_id = v.v \div 10}}

\* C23: absent values are no errors: the empty string, the string "null" and
\* a missing key coerce to 'no value' without raising, for every parameter
\* type.  In a BuyCommand, an offer_id of no value rejects the command: no
\* trade is attempted and nothing changes; a quantity of no value is unset,
\* and the trade on the given offer_id goes on: the open offer is recorded
\* as bought by the agent.
C23_AbsentValuesAreNotErrors ==
    /\ [](\A v \in NoValues :
            /\ \A param_name \in {"offer_id", "quantity", "price", "qty"} :
                /\ _safe_float(v, param_name) = None
                /\ _safe_int(v, param_name) = None
            /\ _safe_str(v) = None)
    /\ [][(IsStep(last') /\ AsksToBuy(last'.decision))
            => /\ Get(last'.decision.params.d, "offer_id") \in NoValues
                    => /\ ~last'.raised
                       /\ <<offer_counter, active_offers, ledger, traded>>'
                            = <<offer_counter, active_offers, ledger, traded>>
                       /\ <<budget, inventory, memory>>'
                            = <<budget, inventory, memory>>
               /\ Get(last'.decision.params.d, "quantity") \in NoValues
                    => \A offer \in OfferAsked(last'.decision) :
                        ledger' = Append(ledger,
                            [seller |-> offer.seller, buyer |-> last'.agent,
                             item |-> offer.item, price |-> offer.price,
                             quantity |-> offer.quantity])]_vars

\* C23's case: in the second tick an agent has just bought an open offer
\* with the quantity given as the empty string.
C23_Witness ==
    /\ IsStep(last)
    /\ AsksToBuy(last.decision)
    /\ Get(last.decision.params.d, "quantity") = PyStr("")
    /\ last.outcome = "buy: success"
    /\ tick = 2

\* ------------------------------------------------------------------ C24

IsSafeInt(l) == l.op = "_safe_int"

\* C24: integer coercion rounds to the nearest integer, a half away from
\* zero, for numbers and numeric strings alike: "5.7" gives 6, 5.3 gives 5,
\* "5" gives 5 and n + 0.5 with n >= 0 gives n + 1.
C24_IntCoercionRoundsHalfAwayFromZero ==
    (IsSafeInt(last) /\ IsNumeric(last.value)) =>
        /\ last.ret = [kind |-> "int", value |-> RoundHalfAway(last.value.v)]
        /\ (last.value.v >= 0 /\ last.value.v % 10 = 5) =>
                last.ret.value = (last.value.v \div 10) + 1

\* ------------------------------------------------------------------ C25

\* The numeric parameters the selected handler converts, in the order it
\* converts them.
NumericParams(handler) ==
    IF handler = "_handle_buy" THEN <<"offer_id", "quantity">>
    ELSE <<"price", "qty">>

\* The value is given and is no value of the parameter's type: it is neither
\* a number nor a numeric string, or it is an infinite number for an
\* integer parameter.
Unconvertible(name, value) ==
    /\ value \notin NoValues
    /\ ~IsNumeric(value)
    /\ ~(name = "price" /\ value = PyInf)

\* The turn handled a command one of whose numeric parameters is given and
\* cannot be converted.
RejectsUnconvertible(l) ==
    /\ IsStep(l)
    /\ IsCommand(l.decision)
    /\ l.handler \in {"_handle_buy", "_handle_post"}
    /\ \E k \in 1..2 :
        Unconvertible(NumericParams(l.handler)[k],
                      Get(l.decision.params.d, NumericParams(l.handler)[k]))

\* C25: a parameter that is given but cannot be converted to its numeric
\* type produces a coercion error carrying the parameter's name, the raw
\* value and the raw value's type; the command is rejected, no exception
\* leaves step, and budget, inventory, memory and all market state are
\* unchanged.
C25_UnconvertibleParameterRejected ==
    [][RejectsUnconvertible(last') =>
        /\ \E k \in 1..2 :
            LET name == NumericParams(last'.handler)[k]
                value == Get(last'.decision.params.d, name)
            IN  /\ Unconvertible(name, value)
                /\ last'.error = [kind |-> "raise", exc |-> "ValueError",
                                  param_name |-> name, value |-> value,
                                  type |-> TypeName(value)]
        /\ last'.outcome \in {"buy: type conversion error",
                               "post: type conversion error"}
        /\ ~last'.raised
        /\ UNCHANGED <<marketVars, agentVars>>]_vars

\* ------------------------------------------------------------------ C26

IsRetrieve(l) == l.op = "retrieve_relevant_memories"

\* In the stream entries, for partner_name, entry i ranks before entry j:
\* its score is higher, or the scores are equal and it was inserted first.
RanksBefore(entries, partner_name, i, j) ==
    LET si == FinalScore(entries[i], partner_name, Now)
        sj == FinalScore(entries[j], partner_name, Now)
    IN  si > sj \/ (si = sj /\ i < j)

\* ret holds the contents of the entries p[1], p[2], ... of the stream, which
\* are in rank order and rank before every entry left out.
IsTopRanked(entries, partner_name, p, ret) ==
    /\ \A k \in 1..(Len(p) - 1) :
            RanksBefore(entries, partner_name, p[k], p[k + 1])
    /\ \A i \in 1..Len(entries) :
            (\A k \in 1..Len(p) : p[k] # i) =>
                \A k \in 1..Len(p) :
                    RanksBefore(entries, partner_name, p[k], i)
    /\ ret = [k \in 1..Len(p) |-> entries[p[k]].content]

\* C26: retrieval returns the contents of the top `limit` entries in
\* descending order of recency + importance/10 + partner bonus, entries of
\* equal score in the order of their insertion, and leaves the stored
\* entries and their order as they are.
C26_RetrievalRanksStablyAndReadsOnly ==
    /\ [](IsRetrieve(last) =>
            LET entries == memory[MemoryOwner]
                m == IF last.limit < Len(entries) THEN last.limit
                     ELSE Len(entries)
            IN  \E p \in [1..m -> 1..Len(entries)] :
                    IsTopRanked(entries, last.partner_name, p, last.ret))
    /\ [][IsRetrieve(last') => memory' = memory]_vars

\* A retrieval of two of three entries, the two of the highest score being
\* equal in score and different in content, and the oldest entry left out
\* although it was inserted first.
C26_Witness ==
    /\ IsRetrieve(last)
    /\ last.limit = 2
    /\ Len(memory[MemoryOwner]) = 3
    /\ last.ret = <<"Bought 3 Wood", "Bought 5 Wood">>
    /\ memory[MemoryOwner][1].content = "Posted an offer"
    /\ memory[MemoryOwner][2].timestamp < Now

\* ------------------------------------------------------------------ C27

\* C27: posting and the decrement of the inventory are one committed
\* operation: at the end of every turn, however it ended, an offer created
\* in the turn is on the board if and only if the inventory of the agent
\* that posted it is lower by the offer's quantity; a turn that leaves no
\* new offer on the board lowers no inventory.
C27_PostAndDecrementCommitTogether ==
    [][IsStep(last') =>
        LET agent == last'.agent
            created == {i \in 1..Len(active_offers') :
                            active_offers'[i].offer_id > offer_counter}
        IN  /\ \A i \in created :
                LET offer == active_offers'[i]
                IN  /\ offer.seller = agent
                    /\ InvGet(inventory'[agent], offer.item)
                        = InvGet(inventory[agent], offer.item) - offer.quantity
            /\ created = {} =>
                \A item \in DOMAIN inventory[agent] :
                    InvGet(inventory'[agent], item)
                        >= InvGet(inventory[agent], item)]_vars

\* ------------------------------------------------------------------ C28

\* What the claim compares of the outcome r of a turn of agent: the market
\* state, the buyer's budget and the buyer's inventory.
MarketAndBuyer(r, agent) ==
    <<r.offer_counter, r.active_offers, r.ledger, r.budget[agent],
      r.inventory[agent]>>

\* C28: the quantity a buy asks for never influences the trade: the turn of
\* a buy leaves the market state, the buyer's budget and the buyer's
\* inventory as the same buy with any other quantity that is an integer or
\* absent (smaller than, equal to or larger than the posted one, zero or
\* negative) would have left them, and a buy that succeeds transfers the
\* whole posted quantity of the offer, never a part of it.
C28_BuyQuantityIsIgnored ==
    [][(IsStep(last') /\ last'.handler = "_handle_buy") =>
        LET agent == last'.agent
            offer_id == BuyOfferId(last'.decision)
        IN  /\ \A quantity \in BuyQuantities :
                MarketAndBuyer(
                    step(agent, BuyDecision(offer_id, quantity), last'.io),
                    agent)
                = <<offer_counter', active_offers', ledger', budget'[agent],
                    inventory'[agent]>>
            /\ last'.outcome = "buy: success" =>
                \E i \in 1..Len(active_offers) :
                    LET offer == active_offers[i]
                    IN  /\ offer.offer_id = offer_id
                        /\ offer_id \notin OpenIds'
                        /\ ledger'[Len(ledger')].quantity = offer.quantity
                        /\ InvGet(inventory'[agent], offer.item)
                            = InvGet(inventory[agent], offer.item)
                              + offer.quantity
                        /\ budget'[agent]
                            = budget[agent] - offer.price * offer.quantity]_vars

\* A buy that asked for 1 unit of an offer of 10 has succeeded: the buyer
\* holds 10 and has paid for 10.
C28_Witness ==
    /\ IsStep(last)
    /\ last.outcome = "buy: success"
    /\ last.agent = "Poor_Carpenter_Dan"
    /\ Get(last.decision.params.d, "quantity") = PyNum(10)
    /\ ledger # <<>>
    /\ ledger[Len(ledger)].quantity = 10
    /\ InvGet(inventory[last.agent], "Wood") = 10
    /\ budget[last.agent] = 400 - 50 * 10

\* ------------------------------------------------------------------ C29

\* The sum of the agents' budgets.
TotalBudget == SumOver(Agents, [a \in Agents |-> budget[a]])

\* What the buyers of the trade history owe: price * quantity over its rows.
TotalTraded ==
    SumOver(1..Len(ledger),
            [i \in 1..Len(ledger) |-> ledger[i].price * ledger[i].quantity])

\* C29: sellers are never paid.  The sum of the agents' budgets is the sum
\* they began with less price * quantity over the rows of the trade
\* history; a buy that succeeds lowers the buyer's budget by price *
\* quantity and raises no budget, and no other turn changes a budget.
C29_SellersAreNeverPaid ==
    /\ [](TotalBudget
            = SumOver(Agents, [a \in Agents |-> Role(a).budget]) - TotalTraded)
    /\ [][IsStep(last') =>
            IF last'.outcome = "buy: success"
            THEN LET row == ledger'[Len(ledger')]
                 IN  budget' = [budget EXCEPT ![last'.agent] =
                                    @ - row.price * row.quantity]
            ELSE budget' = budget]_vars

\* ------------------------------------------------------------------ C30

\* The open offers are listed in strictly ascending order of offer_id.
BoardAscending ==
    \A i \in 1..(Len(active_offers) - 1) :
        active_offers[i].offer_id < active_offers[i + 1].offer_id

\* The counter is at least every offer_id on the board.
CounterCoversBoard ==
    \A i \in 1..Len(active_offers) : active_offers[i].offer_id <= offer_counter

\* C30: every accepted offer is accounted for exactly once: the number of
\* open offers plus the number of trade records is the number of accepted
\* post_offer calls, the open offers are listed in strictly ascending
\* offer_id order, and the counter is at least the largest offer_id on the
\* board.
C30_AcceptedOffersAccountedOnce ==
    /\ Len(active_offers) + Len(ledger) = Len(issued)
    /\ BoardAscending
    /\ CounterCoversBoard

====
